---- MODULE Spec2Model ----
(***************************************************************************)
(* Model of the rover command endpoint (rover.py, error_handling.py).      *)
(*                                                                         *)
(* One behaviour is one POST /api/v1/rover/command request: the decoded    *)
(* JSON body is chosen in Init, validate_input_or_raise runs, the handler  *)
(* unpacks the fields with their defaults, the command loop runs one       *)
(* iteration per step, and the response is built.  JSON values keep their  *)
(* Python type (int, bool, str, None, list, dict) because the validator    *)
(* and the arithmetic of the loop depend on it.                            *)
(***************************************************************************)
EXTENDS Integers, Sequences, FiniteSets, TLC

(* ------------------------------ bounds --------------------------------- *)
\* longest command string of the well-typed requests (the four-turn strings
\* and the test runner's strings come on top)
MaxLen == 2
\* largest grid width / height of the well-typed requests (next to 1)
MaxDim == 2
\* largest start coordinate and obstacle coordinate of the well-typed requests
\* (next to -1 and 0)
MaxCoord == 1
\* longest obstacle list
MaxObst == 1
\* longest command string of the ill-typed requests
MaxBadLen == 2

(* --------------------------- JSON scalars ------------------------------ *)
\* a decoded JSON scalar: k is the Python type, n the numeric value, s the text
Absent  == [k |-> "absent", n |-> 0, s |-> ""]
JNull   == [k |-> "null",   n |-> 0, s |-> ""]
JInt(v) == [k |-> "int",    n |-> v, s |-> ""]
JBool(b) == [k |-> "bool",  n |-> b, s |-> ""]
JStr(t) == [k |-> "str",    n |-> 0, s |-> t]

\* isinstance(v, int): bool is a subclass of int in Python
IsInstanceInt(v) == v.k \in {"int", "bool"}

\* dict.get(key, default) on a field that is Absent when the key is missing
Get(field, default) == IF field.k = "absent" THEN default ELSE field

(* ---------------------- module-level tables ---------------------------- *)
directions == <<"N", "E", "S", "W">>

move_delta == [d \in {"N", "E", "S", "W"} |->
                 CASE d = "N" -> <<0, 1>>
                   [] d = "E" -> <<1, 0>>
                   [] d = "S" -> <<0, -1>>
                   [] d = "W" -> <<-1, 0>>]

\* the default grid size and start pose of rover_command
DefaultWidth == 10
DefaultHeight == 10
DefaultX == 0
DefaultY == 0
DefaultDir == "N"

\* directions.index(direction), 0-based
DirIndex(d) == (CHOOSE j \in 1..4 : directions[j] = d) - 1

\* `direction not in directions` is list membership by ==
InDirections(v) == v.k = "str" /\ \E j \in 1..4 : directions[j] = v.s

(* ----------------------------- validator ------------------------------- *)
valid_cmds == {"f", "b", "l", "r"}

\* a validator that forgets .lower(): upper-case characters are invalid
Lower_CaseSensitive(c) == c

\* str.lower() on the one-character strings of the model's alphabet
Lower(c) == CASE c = "F" -> "f"
              [] c = "B" -> "b"
              [] c = "L" -> "l"
              [] c = "R" -> "r"
              [] OTHER -> c

\* [c for c in commands if c.lower() not in valid_cmds]
RECURSIVE InvalidChars(_)
InvalidChars(cs) ==
    IF cs = <<>> THEN <<>>
    ELSE IF Lower(Head(cs)) \notin valid_cmds
         THEN <<Head(cs)>> \o InvalidChars(Tail(cs))
         ELSE InvalidChars(Tail(cs))

NoDetails == [k |-> "none", chars |-> <<>>, obstacle |-> 0]
Outcome(o, d) == [outcome |-> o, details |-> d]

\* the two checks of the loop over obstacles: "ok" when o passes both, else
\* the ValidationError raised for o
ObstacleCheck(o) ==
    IF o.k # "dict" \/ o.x.k = "absent" \/ o.y.k = "absent"
    THEN "ObstacleMissingXY"
    ELSE IF ~IsInstanceInt(o.x) \/ ~IsInstanceInt(o.y)
    THEN "ObstacleNotInt"
    ELSE "ok"

\* index of the first obstacle the loop rejects, 0 when there is none
FirstBadObstacle(items) ==
    IF \E j \in 1..Len(items) : ObstacleCheck(items[j]) # "ok"
    THEN CHOOSE j \in 1..Len(items) :
            /\ ObstacleCheck(items[j]) # "ok"
            /\ \A h \in 1..(j-1) : ObstacleCheck(items[h]) = "ok"
    ELSE 0

\* a grid dimension that is present and not a positive int
BadDimension(v) == v.k # "absent" /\ (~IsInstanceInt(v) \/ v.n <= 0)

\* validate_input_or_raise: "ok", the ValidationError raised, or "raise" for
\* an exception that is not a ValidationError (TypeError, AttributeError)
validate_input_or_raise(data) ==
    IF data.body = "null" THEN Outcome("MissingBody", NoDetails)
    ELSE IF data.body # "dict" THEN Outcome("raise", NoDetails)
    ELSE IF data.commands.k = "absent" THEN Outcome("MissingField", NoDetails)
    ELSE IF data.commands.k # "str" THEN Outcome("WrongType", NoDetails)
    ELSE IF InvalidChars(data.commands.s) # <<>>
    THEN Outcome("InvalidCommand",
                 [k |-> "invalid_commands",
                  chars |-> InvalidChars(data.commands.s), obstacle |-> 0])
    ELSE IF data.start.k \notin {"absent", "dict"} THEN Outcome("raise", NoDetails)
    ELSE IF ~InDirections(Get(data.start.dir, JStr(DefaultDir)))
    THEN Outcome("InvalidDirection", NoDetails)
    ELSE IF data.grid.k = "null" THEN Outcome("raise", NoDetails)
    ELSE IF data.grid.k = "dict" /\ BadDimension(data.grid.width)
    THEN Outcome("InvalidGridWidth", NoDetails)
    ELSE IF data.grid.k = "dict" /\ BadDimension(data.grid.height)
    THEN Outcome("InvalidGridHeight", NoDetails)
    ELSE IF data.obstacles.k \notin {"absent", "list"}
    THEN Outcome("ObstaclesNotList", NoDetails)
    ELSE IF FirstBadObstacle(data.obstacles.items) # 0
    THEN Outcome(ObstacleCheck(data.obstacles.items[FirstBadObstacle(data.obstacles.items)]),
                 [k |-> "obstacle", chars |-> <<>>,
                  obstacle |-> FirstBadObstacle(data.obstacles.items)])
    ELSE Outcome("ok", NoDetails)

(* ------------------------------ requests ------------------------------- *)
\* all sequences over A of length at most n
SeqsUpTo(A, n) == UNION {[1..m -> A] : m \in 0..n}

Commands(k, cs) == [k |-> k, s |-> cs]
Start(k, sx, sy, sd) == [k |-> k, x |-> sx, y |-> sy, dir |-> sd]
Grid(k, w, h) == [k |-> k, width |-> w, height |-> h]
Obstacle(k, ox, oy) == [k |-> k, x |-> ox, y |-> oy]
Obstacles(k, items) == [k |-> k, items |-> items]
Request(b, c, s, g, o) ==
    [body |-> b, commands |-> c, start |-> s, grid |-> g, obstacles |-> o]

NoCommands == Commands("absent", <<>>)
NoStart == Start("absent", Absent, Absent, Absent)
NoGrid == Grid("absent", Absent, Absent)
NoObstacles == Obstacles("absent", <<>>)

\* the well-typed requests: every field present with the documented type;
\* start x and y are any integers, obstacles any integer pairs
TurnStrings == {<<"r", "r", "r", "r">>, <<"l", "l", "l", "l">>}
GoodCommands ==
    {Commands("str", cs) : cs \in SeqsUpTo({"f", "b", "l", "r"}, MaxLen) \cup TurnStrings}
GoodStarts ==
    {Start("dict", JInt(sx), JInt(sy), JStr(sd)) :
        sx \in {-1, 0, MaxCoord}, sy \in {-1, 0, MaxCoord}, sd \in {"N", "E", "S", "W"}}
GoodGrids ==
    {Grid("dict", JInt(w), JInt(h)) : w \in {1, MaxDim}, h \in {1, MaxDim}}
GoodObstacleItems ==
    {Obstacle("dict", JInt(ox), JInt(oy)) : ox \in {0, MaxCoord}, oy \in {0, MaxCoord}}
GoodObstacles ==
    {Obstacles("list", items) : items \in SeqsUpTo(GoodObstacleItems, MaxObst)}
GoodRequests ==
    {Request("dict", c, s, g, o) :
        c \in GoodCommands, s \in GoodStarts, g \in GoodGrids, o \in GoodObstacles}

\* the ill-typed and partial requests: absent fields, wrong types, upper-case
\* and unknown command characters
BadCommands ==
    {NoCommands, Commands("list", <<>>)}
    \cup {Commands("str", cs) : cs \in SeqsUpTo({"f", "F", "x", "?"}, MaxBadLen)}
BadStarts ==
    {NoStart, Start("null", Absent, Absent, Absent)}
    \cup {Start("dict", sx, sy, sd) :
            sx \in {Absent, JInt(-1), JStr("a")},
            sy \in {Absent, JInt(7)},
            sd \in {Absent, JStr("E"), JStr("X")}}
BadGrids ==
    {NoGrid, Grid("null", Absent, Absent), Grid("list", Absent, Absent)}
    \cup {Grid("dict", w, h) :
            w \in {Absent, JInt(0), JInt(2), JBool(1), JStr("a")},
            h \in {Absent, JInt(0), JInt(1)}}
BadObstacleItems ==
    {Obstacle("int", Absent, Absent),
     Obstacle("dict", JInt(1), Absent),
     Obstacle("dict", JStr("a"), JInt(0)),
     Obstacle("dict", JInt(1), JInt(0)),
     Obstacle("dict", JInt(0), JInt(7))}
BadObstacles ==
    {NoObstacles, Obstacles("dict", <<>>)}
    \cup {Obstacles("list", items) : items \in SeqsUpTo(BadObstacleItems, 1)}
BadRequests ==
    {Request("null", NoCommands, NoStart, NoGrid, NoObstacles),
     Request("int", NoCommands, NoStart, NoGrid, NoObstacles)}
    \cup {Request("dict", c, s, g, o) :
            c \in BadCommands, s \in BadStarts, g \in BadGrids, o \in BadObstacles}

\* the 5x5 requests of the test runner ("basic obstacle hit", "unknown commands
\* ignored", "wrap around") and their variations over short command strings
ScenarioCommands ==
    {<<"f", "f", "f">>, <<"f", "a", "b", "c">>, <<"f">>, <<"r", "f">>,
     <<"f", "b">>, <<"b", "f">>, <<"l", "r">>, <<"r", "l">>}
ScenarioRequests ==
    {Request("dict", Commands("str", cs),
             Start("dict", JInt(sx), JInt(0), JStr(sd)),
             Grid("dict", JInt(5), JInt(5)), Obstacles("list", items)) :
        cs \in ScenarioCommands, sx \in {0, 4}, sd \in {"N", "E"},
        items \in {<<>>, <<Obstacle("dict", JInt(2), JInt(0))>>}}

(* ------------------------------- state --------------------------------- *)
VARIABLES
    data,           \* request.get_json()
    pc,             \* position in rover_command
    width, height,  \* grid.get("width", 10), grid.get("height", 10)
    x, y,           \* start.get("x", 0), start.get("y", 0), then the position
    direction,      \* start.get("dir", "N"), then the facing
    obstacle_set,   \* {(o["x"], o["y"]) for o in obstacles}
    hit_obstacle, obstacle_at, processed,
    i,              \* index of the next character of `for c in commands`
    response        \* the HTTP response, status 0 until one is produced

vars == <<data, pc, width, height, x, y, direction, obstacle_set,
          hit_obstacle, obstacle_at, processed, i, response>>

simVars == <<width, height, x, y, direction, obstacle_set,
             hit_obstacle, obstacle_at, processed, i>>

None == [k |-> "none", x |-> 0, y |-> 0]
NoBody == [present |-> FALSE, x |-> Absent, y |-> Absent, dir |-> "",
           hit_obstacle |-> FALSE, obstacle_at |-> None,
           processed_commands |-> 0, remaining_commands |-> <<>>]
NoResponse == [status |-> 0, error |-> "", details |-> NoDetails, body |-> NoBody]

Init ==
    /\ data \in GoodRequests \cup BadRequests \cup ScenarioRequests
    /\ pc = "validate"
    /\ width = 0 /\ height = 0
    /\ x = Absent /\ y = Absent
    /\ direction = ""
    /\ obstacle_set = {}
    /\ hit_obstacle = FALSE
    /\ obstacle_at = None
    /\ processed = 0
    /\ i = 0
    /\ response = NoResponse

(* --------------------------- error handlers ---------------------------- *)
\* error_response(message, status, details=...): the error envelope
error_response(message, status, details) ==
    [status |-> status, error |-> message, details |-> details, body |-> NoBody]

\* errorhandler(ValidationError)
handle_validation_error(e) == error_response(e.outcome, 400, e.details)

\* errorhandler(ObstacleError): 409 with the obstacle as details
handle_obstacle_error ==
    error_response("Obstacle encountered", 409,
                   [k |-> "obstacle", chars |-> <<>>, obstacle |-> 0])

\* errorhandler(Exception), the catch-all
handle_exception == error_response("Internal server error", 500, NoDetails)

(* ------------------------------ handler -------------------------------- *)
\* validate_input_or_raise(data) returns True
ValidationPasses ==
    /\ pc = "validate"
    /\ validate_input_or_raise(data).outcome = "ok"
    /\ pc' = "unpack"
    /\ UNCHANGED <<data, simVars, response>>

\* validate_input_or_raise(data) raises ValidationError
ValidationFails ==
    /\ pc = "validate"
    /\ validate_input_or_raise(data).outcome \notin {"ok", "raise"}
    /\ response' = handle_validation_error(validate_input_or_raise(data))
    /\ pc' = "done"
    /\ UNCHANGED <<data, simVars>>

\* validate_input_or_raise(data) raises TypeError or AttributeError
ValidationRaises ==
    /\ pc = "validate"
    /\ validate_input_or_raise(data).outcome = "raise"
    /\ response' = handle_exception
    /\ pc' = "done"
    /\ UNCHANGED <<data, simVars>>

\* an obstacle set whose coordinates are wrapped onto the grid
ObstacleSet_Wrapped(items) ==
    {<<items[j].x.n % Get(data.grid.width, JInt(DefaultWidth)).n,
       items[j].y.n % Get(data.grid.height, JInt(DefaultHeight)).n>> : j \in 1..Len(items)}

\* {(o["x"], o["y"]) for o in obstacles}; tuples compare by numeric value
ObstacleSet(items) == {<<items[j].x.n, items[j].y.n>> : j \in 1..Len(items)}

\* an unpacking that falls back to the whole default grid and the whole
\* default start pose as soon as one of their sub-fields is missing
Unpack_AllOrNothing ==
    /\ pc = "unpack"
    /\ data.grid.k \in {"absent", "dict"}
    /\ LET fullGrid == data.grid.width.k # "absent" /\ data.grid.height.k # "absent"
           fullStart == data.start.x.k # "absent" /\ data.start.y.k # "absent"
                          /\ data.start.dir.k # "absent"
       IN /\ width' = IF fullGrid THEN data.grid.width.n ELSE DefaultWidth
          /\ height' = IF fullGrid THEN data.grid.height.n ELSE DefaultHeight
          /\ x' = IF fullStart THEN data.start.x ELSE JInt(DefaultX)
          /\ y' = IF fullStart THEN data.start.y ELSE JInt(DefaultY)
          /\ direction' = IF fullStart THEN data.start.dir.s ELSE DefaultDir
    /\ obstacle_set' = {<<data.obstacles.items[j].x.n, data.obstacles.items[j].y.n>> :
                            j \in 1..Len(data.obstacles.items)}
    /\ hit_obstacle' = FALSE
    /\ obstacle_at' = None
    /\ processed' = 0
    /\ i' = 0
    /\ pc' = "loop"
    /\ UNCHANGED <<data, response>>

\* the assignments before the loop, with their defaults
Unpack ==
    /\ pc = "unpack"
    /\ data.grid.k \in {"absent", "dict"}
    /\ width' = Get(data.grid.width, JInt(DefaultWidth)).n
    /\ height' = Get(data.grid.height, JInt(DefaultHeight)).n
    /\ x' = Get(data.start.x, JInt(DefaultX))
    /\ y' = Get(data.start.y, JInt(DefaultY))
    /\ direction' = Get(data.start.dir, JStr(DefaultDir)).s
    /\ obstacle_set' = ObstacleSet(data.obstacles.items)
    /\ hit_obstacle' = FALSE
    /\ obstacle_at' = None
    /\ processed' = 0
    /\ i' = 0
    /\ pc' = "loop"
    /\ UNCHANGED <<data, response>>

\* grid.get on a grid that is not a dict raises AttributeError
UnpackRaises ==
    /\ pc = "unpack"
    /\ data.grid.k \notin {"absent", "dict"}
    /\ response' = handle_exception
    /\ pc' = "done"
    /\ UNCHANGED <<data, simVars>>

\* the character the loop is at
CurrentCommand == data.commands.s[i + 1]
InLoop == pc = "loop" /\ i < Len(data.commands.s)

\* a turn that wraps over three directions instead of four
Turn_Mod3(d, step) == directions[((DirIndex(d) + step) % 3) + 1]

\* directions[(idx + step) % 4]
Turn(d, step) == directions[((DirIndex(d) + step) % 4) + 1]

\* a left turn that also checks the rover's own cell against the obstacles
TurnLeft_Checked ==
    /\ pc = "loop" /\ i < Len(data.commands.s)
    /\ data.commands.s[i + 1] = "l"
    /\ direction' = directions[((DirIndex(direction) - 1) % 4) + 1]
    /\ hit_obstacle' = (x.k = "int" /\ y.k = "int" /\ <<x.n, y.n>> \in obstacle_set)
    /\ processed' = processed + 1
    /\ i' = i + 1
    /\ UNCHANGED <<data, pc, width, height, x, y, obstacle_set,
                   obstacle_at, response>>

\* c == "l"
TurnLeft ==
    /\ InLoop
    /\ CurrentCommand = "l"
    /\ direction' = Turn(direction, -1)
    /\ processed' = processed + 1
    /\ i' = i + 1
    /\ UNCHANGED <<data, pc, width, height, x, y, obstacle_set,
                   hit_obstacle, obstacle_at, response>>

\* a right turn that steps the wrong way round the cycle
TurnRight_AsLeft ==
    /\ InLoop
    /\ CurrentCommand = "r"
    /\ direction' = Turn(direction, -1)
    /\ processed' = processed + 1
    /\ i' = i + 1
    /\ UNCHANGED <<data, pc, width, height, x, y, obstacle_set,
                   hit_obstacle, obstacle_at, response>>

\* c == "r"
TurnRight ==
    /\ InLoop
    /\ CurrentCommand = "r"
    /\ direction' = Turn(direction, 1)
    /\ processed' = processed + 1
    /\ i' = i + 1
    /\ UNCHANGED <<data, pc, width, height, x, y, obstacle_set,
                   hit_obstacle, obstacle_at, response>>

\* a delta that is not negated for "b"
Delta_NoNegate(c, d) == move_delta[d]

\* dx, dy = move_delta[direction], negated for "b"
Delta(c, d) == IF c = "b" THEN <<-move_delta[d][1], -move_delta[d][2]>>
               ELSE move_delta[d]

\* int + int is defined; str + int and None + int raise TypeError
CanAdd(v) == v.k \in {"int", "bool"}

\* a remainder that truncates toward zero, so -1 stays -1
Wrap_Trunc(a, d, m) == IF a + d < 0 THEN -((-(a + d)) % m) ELSE (a + d) % m

\* (a + d) % m, Python's % with a positive divisor
Wrap(a, d, m) == (a + d) % m

new_x == Wrap(x.n, Delta(CurrentCommand, direction)[1], width)
new_y == Wrap(y.n, Delta(CurrentCommand, direction)[2], height)

\* c in ["f", "b"], no obstacle at the new position
Move ==
    /\ InLoop
    /\ CurrentCommand \in {"f", "b"}
    /\ CanAdd(x) /\ CanAdd(y)
    /\ <<new_x, new_y>> \notin obstacle_set
    /\ x' = JInt(new_x)
    /\ y' = JInt(new_y)
    /\ processed' = processed + 1
    /\ i' = i + 1
    /\ UNCHANGED <<data, pc, width, height, direction, obstacle_set,
                   hit_obstacle, obstacle_at, response>>

\* a blocked move that raises ObstacleError instead of breaking
MoveBlocked_Raises ==
    /\ InLoop
    /\ CurrentCommand \in {"f", "b"}
    /\ CanAdd(x) /\ CanAdd(y)
    /\ <<new_x, new_y>> \in obstacle_set
    /\ hit_obstacle' = TRUE
    /\ obstacle_at' = [k |-> "dict", x |-> new_x, y |-> new_y]
    /\ response' = handle_obstacle_error
    /\ pc' = "done"
    /\ UNCHANGED <<data, width, height, x, y, direction, obstacle_set,
                   processed, i>>

\* a blocked move that still counts the command as processed
MoveBlocked_Counted ==
    /\ InLoop
    /\ CurrentCommand \in {"f", "b"}
    /\ CanAdd(x) /\ CanAdd(y)
    /\ <<new_x, new_y>> \in obstacle_set
    /\ hit_obstacle' = TRUE
    /\ obstacle_at' = [k |-> "dict", x |-> new_x, y |-> new_y]
    /\ processed' = processed + 1
    /\ pc' = "respond"
    /\ UNCHANGED <<data, width, height, x, y, direction, obstacle_set,
                   i, response>>

\* a blocked move that reports the rover's own cell as the obstacle
MoveBlocked_AtRover ==
    /\ InLoop
    /\ CurrentCommand \in {"f", "b"}
    /\ CanAdd(x) /\ CanAdd(y)
    /\ <<new_x, new_y>> \in obstacle_set
    /\ hit_obstacle' = TRUE
    /\ obstacle_at' = [k |-> "dict", x |-> x.n, y |-> y.n]
    /\ pc' = "respond"
    /\ UNCHANGED <<data, width, height, x, y, direction, obstacle_set,
                   processed, i, response>>

\* c in ["f", "b"], obstacle at the new position: break
MoveBlocked ==
    /\ InLoop
    /\ CurrentCommand \in {"f", "b"}
    /\ CanAdd(x) /\ CanAdd(y)
    /\ <<new_x, new_y>> \in obstacle_set
    /\ hit_obstacle' = TRUE
    /\ obstacle_at' = [k |-> "dict", x |-> new_x, y |-> new_y]
    /\ pc' = "respond"
    /\ UNCHANGED <<data, width, height, x, y, direction, obstacle_set,
                   processed, i, response>>

\* c in ["f", "b"], x + dx or y + dy raises TypeError
MoveRaises ==
    /\ InLoop
    /\ CurrentCommand \in {"f", "b"}
    /\ ~(CanAdd(x) /\ CanAdd(y))
    /\ response' = handle_exception
    /\ pc' = "done"
    /\ UNCHANGED <<data, simVars>>

\* an unmatched character that is skipped without being counted
Unrecognised_Skipped ==
    /\ InLoop
    /\ CurrentCommand \notin {"l", "r", "f", "b"}
    /\ i' = i + 1
    /\ UNCHANGED <<data, pc, width, height, x, y, direction, obstacle_set,
                   hit_obstacle, obstacle_at, processed, response>>

\* c matches no branch of the if/elif chain
Unrecognised ==
    /\ InLoop
    /\ CurrentCommand \notin {"l", "r", "f", "b"}
    /\ processed' = processed + 1
    /\ i' = i + 1
    /\ UNCHANGED <<data, pc, width, height, x, y, direction, obstacle_set,
                   hit_obstacle, obstacle_at, response>>

\* the for loop is exhausted
LoopExit ==
    /\ pc = "loop"
    /\ i >= Len(data.commands.s)
    /\ pc' = "respond"
    /\ UNCHANGED <<data, simVars, response>>

\* a slice that drops the blocked command from the remainder
SliceFrom_Skip(cs, p) == SubSeq(cs, p + 2, Len(cs))

\* commands[p:]
SliceFrom(cs, p) == SubSeq(cs, (IF p > Len(cs) THEN Len(cs) ELSE p) + 1, Len(cs))

\* result = {...}; return jsonify(result)
Respond ==
    /\ pc = "respond"
    /\ response' = [status |-> 200, error |-> "", details |-> NoDetails,
                    body |-> [present |-> TRUE, x |-> x, y |-> y, dir |-> direction,
                              hit_obstacle |-> hit_obstacle,
                              obstacle_at |-> obstacle_at,
                              processed_commands |-> processed,
                              remaining_commands |-> SliceFrom(data.commands.s, processed)]]
    /\ pc' = "done"
    /\ UNCHANGED <<data, simVars>>

Next ==
    \/ ValidationPasses
    \/ ValidationFails
    \/ ValidationRaises
    \/ Unpack
    \/ UnpackRaises
    \/ TurnLeft
    \/ TurnRight
    \/ Move
    \/ MoveBlocked
    \/ MoveRaises
    \/ Unrecognised
    \/ LoopExit
    \/ Respond

Spec == Init /\ [][Next]_vars

(* ------------------------------ claims --------------------------------- *)
\* the request as the handler reads it
cmds == data.commands.s
Validated == validate_input_or_raise(data).outcome = "ok"
Answered == pc = "done"
body == response.body
GridWidth == Get(data.grid.width, JInt(DefaultWidth)).n
GridHeight == Get(data.grid.height, JInt(DefaultHeight)).n
StartX == Get(data.start.x, JInt(DefaultX))
StartY == Get(data.start.y, JInt(DefaultY))
StartDir == Get(data.start.dir, JStr(DefaultDir)).s

\* C1: in every 200 response processed_commands + len(remaining_commands) is
\* len(commands) and remaining_commands is the suffix of commands that starts
\* at index processed_commands, obstacle or not.
C1_Conservation ==
    response.status = 200 =>
        /\ body.processed_commands + Len(body.remaining_commands) = Len(cmds)
        /\ \A j \in 1..Len(body.remaining_commands) :
              body.remaining_commands[j] = cmds[body.processed_commands + j]

\* C1 witness: a run stopped by an obstacle after at least one command, with
\* more than one command left
C1_Witness ==
    /\ response.status = 200
    /\ body.hit_obstacle
    /\ body.processed_commands > 0
    /\ Len(body.remaining_commands) > 1

\* C2: hit_obstacle is true iff obstacle_at is non-null; when true, obstacle_at
\* is one of the request's obstacles and is the wrapped position that the f/b
\* command at index processed_commands leads to from the final pose.
C2_ObstacleConsistency ==
    response.status = 200 =>
        /\ body.hit_obstacle <=> body.obstacle_at # None
        /\ body.hit_obstacle =>
              /\ \E j \in 1..Len(data.obstacles.items) :
                    /\ data.obstacles.items[j].x.n = body.obstacle_at.x
                    /\ data.obstacles.items[j].y.n = body.obstacle_at.y
              /\ body.processed_commands < Len(cmds)
              /\ cmds[body.processed_commands + 1] \in {"f", "b"}
              /\ LET sign == IF cmds[body.processed_commands + 1] = "b" THEN -1 ELSE 1
                     dx == sign * move_delta[body.dir][1]
                     dy == sign * move_delta[body.dir][2]
                 IN /\ body.obstacle_at.x = (body.x.n + dx) % GridWidth
                    /\ body.obstacle_at.y = (body.y.n + dy) % GridHeight

\* C2 witness: an obstacle hit on a grid wider than one cell, after a command
\* that was applied
C2_Witness ==
    /\ response.status = 200
    /\ body.hit_obstacle
    /\ body.processed_commands > 0
    /\ GridWidth > 1

\* C3: in every 200 response the final x is in [0, width) and the final y is
\* in [0, height).
C3_Bounds ==
    response.status = 200 =>
        /\ body.x.k = "int" /\ 0 <= body.x.n /\ body.x.n < GridWidth
        /\ body.y.k = "int" /\ 0 <= body.y.n /\ body.y.n < GridHeight

\* the f/b command the loop is at leads to an obstacle
BlockedHere ==
    /\ InLoop
    /\ CurrentCommand \in {"f", "b"}
    /\ CanAdd(x) /\ CanAdd(y)
    /\ <<new_x, new_y>> \in obstacle_set

PoseAndCountUnchanged ==
    x' = x /\ y' = y /\ direction' = direction /\ processed' = processed

\* C4: a blocked f/b step leaves x, y, dir and the processed count unchanged,
\* sets hit_obstacle, records the candidate as obstacle_at and leaves the loop;
\* after a hit nothing changes the pose or the processed count.
C4_BlockedStep ==
    [][ /\ BlockedHere =>
             /\ PoseAndCountUnchanged
             /\ hit_obstacle'
             /\ obstacle_at' = [k |-> "dict", x |-> new_x, y |-> new_y]
             /\ pc' # "loop"
        /\ hit_obstacle => (PoseAndCountUnchanged /\ pc' # "loop")
      ]_vars

\* C4 witness: the response of a run blocked after one applied command, with
\* a command after the blocked one
C4_Witness ==
    /\ Answered
    /\ hit_obstacle
    /\ processed > 0
    /\ processed + 1 < Len(cmds)
    /\ body.processed_commands = processed

\* C5: every request that passes validation is answered with status 200.
C5_ValidatedNever500 ==
    (Validated /\ Answered) => response.status = 200

\* a JSON integer (true and false are not)
IsJsonInteger(v) == v.k = "int"
BrokenDimension(v) == v.k # "absent" /\ (~IsJsonInteger(v) \/ v.n <= 0)
BrokenObstacle(o) ==
    o.k # "dict" \/ ~IsJsonInteger(o.x) \/ ~IsJsonInteger(o.y)

\* the request breaks one of the validator's rules
ViolatesRule ==
    \/ data.body = "null"
    \/ /\ data.body = "dict"
       /\ \/ data.commands.k # "str"
          \/ data.start.k = "dict" /\ data.start.dir.k # "absent"
                /\ ~(data.start.dir.k = "str" /\ data.start.dir.s \in {"N", "E", "S", "W"})
          \/ data.grid.k = "dict" /\ BrokenDimension(data.grid.width)
          \/ data.grid.k = "dict" /\ BrokenDimension(data.grid.height)
          \/ data.obstacles.k \notin {"absent", "list"}
          \/ \E j \in 1..Len(data.obstacles.items) :
                BrokenObstacle(data.obstacles.items[j])

\* no simulation state was built
NotSimulated ==
    /\ ~body.present
    /\ direction = "" /\ x = Absent /\ y = Absent /\ processed = 0 /\ ~hit_obstacle

\* C6: a request that violates a validator rule is answered with 400 and the
\* error envelope, and is never simulated.
C6_RuleViolation400 ==
    /\ ViolatesRule => pc \in {"validate", "done"}
    /\ (ViolatesRule /\ Answered) =>
          (response.status = 400 /\ response.error # "" /\ NotSimulated)

\* C7: every character of the command string the loop runs over is one of
\* f, b, l, r.
C7_LoopAlphabet ==
    pc = "loop" => \A j \in 1..Len(cmds) : cmds[j] \in {"f", "b", "l", "r"}

\* the characters the validator's rule 4 accepts
Accepted(c) == c \in {"f", "b", "l", "r", "F", "B", "L", "R"}
Offending(c) == ~Accepted(c)

C9_FourTurns ==
    (Validated /\ Answered /\ cmds \in TurnStrings) =>
        /\ response.status = 200
        /\ body.dir = StartDir
        /\ body.x = StartX /\ body.y = StartY
        /\ body.processed_commands = 4
        /\ ~body.hit_obstacle

\* C9 witness: "llll" answered for a rover that starts facing S on an obstacle
C9_Witness ==
    /\ Answered
    /\ cmds = <<"l", "l", "l", "l">>
    /\ StartDir = "S"
    /\ <<StartX.n, StartY.n>> \in obstacle_set
    /\ response.status = 200

NoMoves == \A j \in 1..Len(cmds) : cmds[j] \notin {"f", "b"}

\* C10: an l or r step changes neither x nor y nor hit_obstacle; hit_obstacle
\* becomes true only on an f or b step; a string without f or b ends with
\* hit_obstacle = false even with an obstacle on the starting cell.
C10_TurnsNeverBlocked ==
    /\ [][ /\ (InLoop /\ CurrentCommand \in {"l", "r"}) =>
                (x' = x /\ y' = y /\ hit_obstacle' = hit_obstacle
                    /\ obstacle_at' = obstacle_at)
           /\ (~hit_obstacle /\ hit_obstacle') =>
                (InLoop /\ CurrentCommand \in {"f", "b"})
         ]_vars
    /\ []((response.status = 200 /\ NoMoves) =>
            (~body.hit_obstacle /\ body.obstacle_at = None))

\* C10 witness: a turn-only string answered for a rover that starts on an
\* obstacle
C10_Witness ==
    /\ response.status = 200
    /\ NoMoves
    /\ Len(cmds) > 0
    /\ \E j \in 1..Len(cmds) : cmds[j] = "l"
    /\ <<StartX.n, StartY.n>> \in obstacle_set
    /\ ~body.hit_obstacle

\* the x and y step of the command the loop is at, from the spec's table
\* N=(0,+1), E=(+1,0), S=(0,-1), W=(-1,0), negated for b
StepX ==
    CASE (CurrentCommand = "f" /\ direction = "E") \/ (CurrentCommand = "b" /\ direction = "W") -> 1
      [] (CurrentCommand = "f" /\ direction = "W") \/ (CurrentCommand = "b" /\ direction = "E") -> -1
      [] OTHER -> 0
StepY ==
    CASE (CurrentCommand = "f" /\ direction = "N") \/ (CurrentCommand = "b" /\ direction = "S") -> 1
      [] (CurrentCommand = "f" /\ direction = "S") \/ (CurrentCommand = "b" /\ direction = "N") -> -1
      [] OTHER -> 0

\* the step commits an f or b move
CommittedMove ==
    InLoop /\ CurrentCommand \in {"f", "b"} /\ processed' = processed + 1

\* C11: a committed f or b move off an edge re-enters at the opposite edge with
\* a non-negative coordinate: from x = width-1 in the +x direction to 0, from
\* x = 0 in the -x direction to width-1, and the same for y with height.
C11_WrapAround ==
    [][ CommittedMove =>
          /\ x'.k = "int" /\ x'.n >= 0
          /\ y'.k = "int" /\ y'.n >= 0
          /\ (StepX = 1 /\ x.n = width - 1) => x'.n = 0
          /\ (StepX = -1 /\ x.n = 0) => x'.n = width - 1
          /\ (StepY = 1 /\ y.n = height - 1) => y'.n = 0
          /\ (StepY = -1 /\ y.n = 0) => y'.n = height - 1
      ]_vars

\* C11 witness: after "b" facing E from x = 0 the rover is at x = width-1 on a
\* grid wider than one cell
C11_Witness ==
    /\ pc = "loop" /\ i = 1 /\ processed = 1
    /\ cmds[1] = "b"
    /\ StartDir = "E"
    /\ StartX = JInt(0)
    /\ width > 1
    /\ x = JInt(width - 1)

\* C12: no request is answered 409, and a simulation stopped by an obstacle is
\* answered 200 with hit_obstacle = true.
C12_ObstacleIsSuccess ==
    /\ response.status # 409
    /\ (Answered /\ hit_obstacle) =>
          (response.status = 200 /\ body.present /\ body.hit_obstacle)

\* C12 witness: the "basic obstacle hit" request answered 200 after one command
C12_Witness ==
    /\ Answered
    /\ data \in ScenarioRequests
    /\ cmds = <<"f", "f", "f">>
    /\ response.status = 200
    /\ body.hit_obstacle
    /\ body.obstacle_at = [k |-> "dict", x |-> 2, y |-> 0]
    /\ body.processed_commands = 1

\* the earliest rule the request violates, in the validator's documented
\* order; "none" when it violates no rule
EarliestViolated ==
    IF data.body = "null" THEN "MissingBody"
    ELSE IF data.body # "dict" THEN "none"
    ELSE IF data.commands.k = "absent" THEN "MissingField"
    ELSE IF data.commands.k # "str" THEN "WrongType"
    ELSE IF \E j \in 1..Len(cmds) : Offending(cmds[j]) THEN "InvalidCommand"
    ELSE IF data.start.k = "dict" /\ data.start.dir.k # "absent"
              /\ ~(data.start.dir.k = "str" /\ data.start.dir.s \in {"N", "E", "S", "W"})
    THEN "InvalidDirection"
    ELSE IF data.grid.k = "dict" /\ BadDimension(data.grid.width) THEN "InvalidGridWidth"
    ELSE IF data.grid.k = "dict" /\ BadDimension(data.grid.height) THEN "InvalidGridHeight"
    ELSE IF data.obstacles.k \notin {"absent", "list"} THEN "ObstaclesNotList"
    ELSE IF \E j \in 1..Len(data.obstacles.items) : ObstacleCheck(data.obstacles.items[j]) # "ok"
    THEN LET first == CHOOSE j \in 1..Len(data.obstacles.items) :
                         /\ ObstacleCheck(data.obstacles.items[j]) # "ok"
                         /\ \A h \in 1..(j - 1) : ObstacleCheck(data.obstacles.items[h]) = "ok"
         IN ObstacleCheck(data.obstacles.items[first])
    ELSE "none"

\* C13: a request that violates one or more rules is answered with the error
\* of the earliest violated rule in the order missing body, missing commands,
\* commands not a string, invalid character, start.dir, grid.width,
\* grid.height, obstacles not a list, malformed obstacle.
C13_FirstFailure ==
    (Answered /\ EarliestViolated # "none") =>
        (response.status = 400 /\ response.error = EarliestViolated)

\* the simulation has its inputs: the loop is running or has ended
Simulating == pc \in {"loop", "respond"} \/ response.status = 200

\* C14: an absent grid, start or obstacles, or an absent width, height, x, y
\* or dir inside a present grid or start, takes its own default (10, 10, 0, 0,
\* N, no obstacles); every supplied field keeps its supplied value.
C14_Defaults ==
    /\ Simulating =>
          /\ width = IF data.grid.k = "absent" \/ data.grid.width.k = "absent"
                     THEN 10 ELSE data.grid.width.n
          /\ height = IF data.grid.k = "absent" \/ data.grid.height.k = "absent"
                      THEN 10 ELSE data.grid.height.n
          /\ obstacle_set = IF data.obstacles.k = "absent" THEN {}
                            ELSE {<<data.obstacles.items[j].x.n, data.obstacles.items[j].y.n>> :
                                     j \in 1..Len(data.obstacles.items)}
    /\ (pc = "loop" /\ i = 0) =>
          /\ x = IF data.start.k = "absent" \/ data.start.x.k = "absent"
                 THEN JInt(0) ELSE data.start.x
          /\ y = IF data.start.k = "absent" \/ data.start.y.k = "absent"
                 THEN JInt(0) ELSE data.start.y
          /\ direction = IF data.start.k = "absent" \/ data.start.dir.k = "absent"
                         THEN "N" ELSE data.start.dir.s

\* C14 witness: the loop starts for a request whose grid has only a height and
\* whose start has only a y
C14_Witness ==
    /\ pc = "loop" /\ i = 0
    /\ data.grid.k = "dict" /\ data.grid.width.k = "absent" /\ data.grid.height = JInt(1)
    /\ data.start.k = "dict" /\ data.start.x.k = "absent" /\ data.start.y = JInt(7)
    /\ data.start.dir.k = "absent"
    /\ width = 10 /\ height = 1
    /\ x = JInt(0) /\ y = JInt(7) /\ direction = "N"

\* C15: on a grid of width 1 an f or b step facing E or W leaves the rover in
\* the same cell, and on a grid of height 1 an f or b step facing N or S does.
C15_SelfWrap ==
    [][ (InLoop /\ CurrentCommand \in {"f", "b"}) =>
          /\ (width = 1 /\ direction \in {"E", "W"}) => (x' = x /\ y' = y)
          /\ (height = 1 /\ direction \in {"N", "S"}) => (x' = x /\ y' = y)
      ]_vars

\* C16: the loop runs at most len(commands) iterations, and once it has ended
\* either hit_obstacle is false, processed = len(commands) and nothing
\* remains, or hit_obstacle is true, processed < len(commands) and the first
\* remaining character is the blocked f or b.
C16_LoopOutcome ==
    /\ i <= Len(cmds)
    /\ (direction # "" /\ pc \in {"respond", "done"}) =>
          \/ ~hit_obstacle /\ processed = Len(cmds)
               /\ (Answered => (response.status = 200 /\ body.remaining_commands = <<>>))
          \/ hit_obstacle /\ processed < Len(cmds)
               /\ cmds[processed + 1] \in {"f", "b"}
               /\ (Answered => (response.status = 200
                                  /\ Head(body.remaining_commands) = cmds[processed + 1]))

\* the clockwise successor in the cycle N -> E -> S -> W -> N
RightOf(d) == CASE d = "N" -> "E" [] d = "E" -> "S" [] d = "S" -> "W" [] d = "W" -> "N"

\* spec scenario C: grid 5x5, start (0,0,N), no obstacles, commands "rf"
ScenarioC ==
    /\ data.grid = Grid("dict", JInt(5), JInt(5))
    /\ data.start = Start("dict", JInt(0), JInt(0), JStr("N"))
    /\ data.obstacles = Obstacles("list", <<>>)
    /\ data.commands = Commands("str", <<"r", "f">>)

\* C17: r maps N to E, E to S, S to W, W to N and l is its inverse; "lr" and
\* "rl" end in the starting direction; dir is one of N, E, S, W while the
\* simulation runs; scenario C ends at (1,0,E) with processed_commands = 2.
C17_DirectionCycle ==
    /\ [][ /\ (InLoop /\ CurrentCommand = "r") => direction' = RightOf(direction)
           /\ (InLoop /\ CurrentCommand = "l") =>
                 (direction' \in {"N", "E", "S", "W"} /\ RightOf(direction') = direction)
         ]_vars
    /\ [](Simulating => direction \in {"N", "E", "S", "W"})
    /\ []((response.status = 200 /\ cmds \in {<<"l", "r">>, <<"r", "l">>}) =>
            body.dir = StartDir)
    /\ []((Answered /\ ScenarioC) =>
            /\ response.status = 200
            /\ body.x = JInt(1) /\ body.y = JInt(0) /\ body.dir = "E"
            /\ ~body.hit_obstacle
            /\ body.processed_commands = 2)

\* C17 witness: scenario C answered
C17_Witness ==
    /\ Answered
    /\ ScenarioC
    /\ body.present
    /\ body.dir = "E"

\* the request's obstacles are integer pairs
NumericObstacles ==
    \A j \in 1..Len(data.obstacles.items) :
        data.obstacles.items[j].x.k = "int" /\ data.obstacles.items[j].y.k = "int"

OutsideGrid(o) ==
    o.x.n < 0 \/ o.x.n >= GridWidth \/ o.y.n < 0 \/ o.y.n >= GridHeight

\* C18: obstacles are compared unwrapped: when every obstacle lies outside the
\* grid the rover is never stopped, and a reported obstacle_at has x in
\* [0, width) and y in [0, height).
C18_UnwrappedObstacles ==
    (response.status = 200 /\ NumericObstacles) =>
        /\ body.hit_obstacle =>
              /\ 0 <= body.obstacle_at.x /\ body.obstacle_at.x < GridWidth
              /\ 0 <= body.obstacle_at.y /\ body.obstacle_at.y < GridHeight
              /\ \E j \in 1..Len(data.obstacles.items) :
                    /\ ~OutsideGrid(data.obstacles.items[j])
                    /\ data.obstacles.items[j].x.n = body.obstacle_at.x
                    /\ data.obstacles.items[j].y.n = body.obstacle_at.y
        /\ (\A j \in 1..Len(data.obstacles.items) : OutsideGrid(data.obstacles.items[j])) =>
              (~body.hit_obstacle /\ body.processed_commands = Len(cmds))

\* C18 witness: on a grid of width 1 the rover at (0,0) facing E runs "f..."
\* to the end although an obstacle is registered right of the grid on y = 0
C18_Witness ==
    /\ response.status = 200
    /\ GridWidth = 1
    /\ Len(data.obstacles.items) = 1
    /\ data.obstacles.items[1].x.n > 0 /\ data.obstacles.items[1].y.n = 0
    /\ StartX = JInt(0) /\ StartY = JInt(0) /\ StartDir = "E"
    /\ Len(cmds) > 0 /\ cmds[1] = "f"
    /\ ~body.hit_obstacle
    /\ body.processed_commands = Len(cmds)

UpperCase(c) == c \in {"F", "B", "L", "R"}

\* C19: an accepted character that is not a lower-case f, b, l, r leaves x, y,
\* dir, hit_obstacle and obstacle_at unchanged and adds 1 to processed; a
\* string of such characters only is answered with the start pose and
\* processed_commands = len(commands).
C19_UpperCaseNoOp ==
    /\ [][ (InLoop /\ UpperCase(CurrentCommand)) =>
              /\ x' = x /\ y' = y /\ direction' = direction
              /\ hit_obstacle' = hit_obstacle /\ obstacle_at' = obstacle_at
              /\ processed' = processed + 1
         ]_vars
    /\ []((Validated /\ Answered /\ response.status = 200
             /\ \A j \in 1..Len(cmds) : UpperCase(cmds[j])) =>
            /\ body.x = StartX /\ body.y = StartY /\ body.dir = StartDir
            /\ ~body.hit_obstacle
            /\ body.processed_commands = Len(cmds))

\* C19 witness: "FF" answered with two processed commands and the start pose
C19_Witness ==
    /\ response.status = 200
    /\ cmds = <<"F", "F">>
    /\ body.processed_commands = 2
    /\ body.x = StartX /\ body.y = StartY /\ body.dir = StartDir

StartInsideGrid ==
    /\ StartX.k = "int" /\ 0 <= StartX.n /\ StartX.n < GridWidth
    /\ StartY.k = "int" /\ 0 <= StartY.n /\ StartY.n < GridHeight

\* C20: with no obstacles and a start inside the grid, "fb" and "bf" end in
\* the starting pose with processed_commands = 2.
C20_BackInvertsForward ==
    (Validated /\ Answered /\ cmds \in {<<"f", "b">>, <<"b", "f">>}
        /\ data.obstacles.items = <<>> /\ StartInsideGrid) =>
        /\ response.status = 200
        /\ body.x = StartX /\ body.y = StartY /\ body.dir = StartDir
        /\ ~body.hit_obstacle
        /\ body.processed_commands = 2
        /\ body.remaining_commands = <<>>

\* C20 witness: "bf" answered for a rover that starts on the low x edge of a
\* 5x5 grid facing E
C20_Witness ==
    /\ Answered
    /\ cmds = <<"b", "f">>
    /\ GridWidth = 5
    /\ StartX = JInt(0) /\ StartDir = "E"
    /\ data.obstacles.items = <<>>
    /\ response.status = 200

====
